---- MODULE Spec2Model ----
(***************************************************************************)
(* Mock Payment Service (src/unnamed/part_006): the module-level           *)
(* transaction map and default configuration, the configuration merged by  *)
(* the constructor, the middleware chain, the route handlers, and the      *)
(* public methods start, stop, getTestCards and resetTransactions.         *)
(*                                                                         *)
(* The handlers are synchronous JavaScript: each one runs to completion    *)
(* once the delay timer of its request has fired, so one handler is one    *)
(* step.  A request is in `inflight` from the moment the delay middleware  *)
(* has armed its timer until its handler has answered.                     *)
(***************************************************************************)
EXTENDS Integers, Sequences, FiniteSets, Bags, TLC

VARIABLES
  config,        \* this.config of the instance
  transactions,  \* the module-level Map: identifier -> transaction object
  nextId,        \* identifiers handed out so far by uuidv4, plus one
  inflight,      \* bag of requests whose delay timer is armed
  last,          \* the request answered by the latest handler step, and its response
  submitted,     \* history: the body that created each stored transaction
  cleared,       \* history: identifiers removed by resetTransactions
  pinned,        \* history: the earlier answer to the request a caller has sent again
  clock,         \* the time new Date() reads
  written,       \* the properties callers have set on DEFAULT_CONFIG.testCards
  peer,          \* this.config of a second instance of the process, once constructed
  aliased,       \* the instances whose config.testCards is DEFAULT_CONFIG.testCards
  owner,         \* history: the instance whose handler created each transaction
  settled,       \* history: the data of the successful refunds of each stored transaction
  server,        \* this.server of the instance: the listener of the latest start()
  listeners,     \* the listening sockets opened on the host so far
  quiet          \* history: resetTransactions has run and no request has come in since

vars ==
  <<config, transactions, nextId, inflight, last, submitted, cleared, pinned, clock,
    written, peer, aliased, owner, settled, server, listeners, quiet>>

\* the state of the process around the instance, of its second instance and of
\* its listener
process == <<written, peer, aliased>>
network == <<server, listeners>>

\* the instances of the process: the one under study and its peer
This == "this"
Peer == "peer"

\* this.config of instance i
ConfigOf(i) == IF i = Peer THEN peer[1] ELSE config

-----------------------------------------------------------------------------
(* Bounds of the model. *)

\* identifiers uuidv4 may hand out in one behaviour
MaxTx == 2

\* requests whose delay timers are armed at the same time
MaxInflight == 3

\* sockets opened on the host in one behaviour
MaxListeners == 3

-----------------------------------------------------------------------------
(* JavaScript values, tagged by type.  A card number is a string whose     *)
(* characters the code inspects, so it is kept as the sequence of its runs *)
(* (tag "text"): groups of four digits and runs of whitespace.  The other  *)
(* strings are opaque (tag "string").                                      *)

Undefined == [t |-> "undefined"]
Str(s)    == [t |-> "string", v |-> s]
Text(cs)  == [t |-> "text", v |-> cs]
Num(n)    == [t |-> "number", v |-> n]
Obj(o)    == [t |-> "object", v |-> o]
NaN       == [t |-> "NaN"]

\* JavaScript truthiness, as used by !x and x || y
Truthy(x) ==
  CASE x.t = "undefined" -> FALSE
    [] x.t = "string"    -> x.v # ""
    [] x.t = "text"      -> Len(x.v) # 0
    [] x.t = "number"    -> x.v # 0
    [] OTHER             -> TRUE

\* x || y
OrElse(x, y) == IF Truthy(x) THEN x ELSE y

\* x === y
StrictEq(x, y) == x.t = y.t /\ x = y

\* o.k, undefined when o has no property k
Prop(o, k) == IF k \in DOMAIN o THEN o[k] ELSE Undefined

\* the runs /\s+/g matches
Whitespace == {" ", "\t", "\n"}

NotWhitespace(c) == c \notin Whitespace

\* cs.replace(/\s+/g, '')
StripWhitespace(cs) == SelectSeq(cs, NotWhitespace)

-----------------------------------------------------------------------------
(* Card numbers of DEFAULT_CONFIG.testCards, in groups of four digits. *)


CardSuccess           == <<"4111", "1111", "1111", "1111">>
CardDecline           == <<"4000", "0000", "0000", "0002">>
CardError             == <<"4000", "0000", "0000", "0069">>
CardCvvError          == <<"4000", "0000", "0000", "0127">>
CardExpired           == <<"4000", "0000", "0000", "0069">>
CardInsufficientFunds == <<"4000", "0000", "0000", "9995">>
CardInvalid           == <<"1234", "5678", "9012", "3456">>

\* errorRate 0.05 and declineRate 0.1, in hundredths
DefaultErrorRate == 5
DefaultDeclineRate == 10

DefaultTestCards ==
  [success           |-> Text(CardSuccess),
   decline           |-> Text(CardDecline),
   error             |-> Text(CardError),
   cvvError          |-> Text(CardCvvError),
   expiredCard       |-> Text(CardExpired),
   insufficientFunds |-> Text(CardInsufficientFunds),
   invalidCard       |-> Text(CardInvalid)]

\* port 3030
DefaultPort == 3030

\* delay: { min: 200, max: 1000 }, in milliseconds
DefaultDelayMin == 200
DefaultDelayMax == 1000

DEFAULT_CONFIG ==
  [port        |-> DefaultPort,
   delay       |-> [min |-> Num(DefaultDelayMin), max |-> Num(DefaultDelayMax)],
   errorRate   |-> DefaultErrorRate,
   declineRate |-> DefaultDeclineRate,
   availablePaymentMethods |->
     {Str("credit_card"), Str("paypal"), Str("apple_pay"), Str("google_pay")},
   testCards   |-> DefaultTestCards]

\* { ...defaults, ...cfg }: a shallow merge, so a testCards object that cfg
\* does not replace is the very object of the defaults
Merge(defaults, cfg) ==
  [k \in DOMAIN defaults \cup DOMAIN cfg |->
     IF k \in DOMAIN cfg THEN cfg[k] ELSE defaults[k]]

\* constructor: this.config = { ...DEFAULT_CONFIG, ...config }, while
\* DEFAULT_CONFIG is as the module defines it
Construct(cfg) == Merge(DEFAULT_CONFIG, cfg)

\* o[k] = v on a testCards object
SetProp(o, k, v) == [j \in DOMAIN o \cup {k} |-> IF j = k THEN v ELSE o[j]]

\* DEFAULT_CONFIG once callers have set the properties ws on its testCards
DefaultsAfter(ws) ==
  [DEFAULT_CONFIG EXCEPT !.testCards =
     [k \in DOMAIN DefaultTestCards \cup DOMAIN ws |->
        IF k \in DOMAIN ws THEN ws[k] ELSE DefaultTestCards[k]]]

-----------------------------------------------------------------------------
(* Random draws and clock readings.  Math.random() yields a value in        *)
(* [0, 1); a roll is that value in hundredths.  new Date() yields the time  *)
(* of the handler step, one of Times.                                       *)

Rolls == {0, 7, 50}
Times == {1, 2}

\* faulty variant: the comparison includes the rate itself
Triggered_Inclusive(roll, rate) == roll <= rate

\* Math.random() < rate
Triggered(roll, rate) == roll < rate

-----------------------------------------------------------------------------
(* Responses. *)

\* res.status(status).json({ success: false, error: { code, ... } })
Fail(status, code) ==
  [status |-> status, success |-> FALSE, code |-> code, data |-> Undefined]

\* res.status(status).json({ success: true, data })
Ok(status, data) ==
  [status |-> status, success |-> TRUE, code |-> "", data |-> data]

NoRequest == [kind |-> "none", to |-> "none"]
NoLast == [req |-> NoRequest, res |-> Fail(0, "")]

-----------------------------------------------------------------------------
(* processPayment: the checks that precede the creation, in code order.     *)
(* Each check yields <<>> when it lets the request pass, and <<response>>   *)
(* when it answers.                                                         *)

\* cardDetails?.number
OptionalNumber(cardDetails) ==
  IF cardDetails.t = "object" THEN Prop(cardDetails.v, "number") ELSE Undefined

\* faulty variant: the expired card is compared before the error card
MagicCardResponse_ExpiredFirst(cfg, cardNumber) ==
  IF StrictEq(cardNumber, Prop(cfg.testCards, "decline"))
    THEN <<Fail(402, "card_declined")>>
  ELSE IF StrictEq(cardNumber, Prop(cfg.testCards, "expiredCard"))
    THEN <<Fail(400, "expired_card")>>
  ELSE IF StrictEq(cardNumber, Prop(cfg.testCards, "error"))
    THEN <<Fail(500, "processing_error")>>
  ELSE IF StrictEq(cardNumber, Prop(cfg.testCards, "cvvError"))
    THEN <<Fail(400, "invalid_cvv")>>
  ELSE IF StrictEq(cardNumber, Prop(cfg.testCards, "insufficientFunds"))
    THEN <<Fail(402, "insufficient_funds")>>
  ELSE IF StrictEq(cardNumber, Prop(cfg.testCards, "invalidCard"))
    THEN <<Fail(400, "invalid_card")>>
  ELSE <<>>

\* the six comparisons of the normalised card number with the test cards
MagicCardResponse(cfg, cardNumber) ==
  IF StrictEq(cardNumber, Prop(cfg.testCards, "decline"))
    THEN <<Fail(402, "card_declined")>>
  ELSE IF StrictEq(cardNumber, Prop(cfg.testCards, "error"))
    THEN <<Fail(500, "processing_error")>>
  ELSE IF StrictEq(cardNumber, Prop(cfg.testCards, "cvvError"))
    THEN <<Fail(400, "invalid_cvv")>>
  ELSE IF StrictEq(cardNumber, Prop(cfg.testCards, "expiredCard"))
    THEN <<Fail(400, "expired_card")>>
  ELSE IF StrictEq(cardNumber, Prop(cfg.testCards, "insufficientFunds"))
    THEN <<Fail(402, "insufficient_funds")>>
  ELSE IF StrictEq(cardNumber, Prop(cfg.testCards, "invalidCard"))
    THEN <<Fail(400, "invalid_card")>>
  ELSE <<>>

\* faulty variant: the card checks are applied whatever the payment method
CardResponse_AnyMethod(cfg, body) ==
  IF ~Truthy(body.cardDetails) \/ ~Truthy(OptionalNumber(body.cardDetails))
    THEN <<Fail(400, "invalid_card_details")>>
  ELSE IF OptionalNumber(body.cardDetails).t # "text"
    THEN <<Fail(500, "server_error")>>
  ELSE MagicCardResponse(cfg, Text(StripWhitespace(OptionalNumber(body.cardDetails).v)))

\* faulty variant: a card number that is no string is taken for an ordinary card
CardResponse_CoercesNumber(cfg, body) ==
  IF ~StrictEq(body.paymentMethod, Str("credit_card")) THEN <<>>
  ELSE IF ~Truthy(body.cardDetails) \/ ~Truthy(OptionalNumber(body.cardDetails))
    THEN <<Fail(400, "invalid_card_details")>>
  ELSE IF OptionalNumber(body.cardDetails).t # "text"
    THEN <<>>
  ELSE MagicCardResponse(cfg, Text(StripWhitespace(OptionalNumber(body.cardDetails).v)))

\* the credit_card branch; a card number that is no string makes .replace
\* throw, which the error middleware answers with 500 server_error
CardResponse(cfg, body) ==
  IF ~StrictEq(body.paymentMethod, Str("credit_card")) THEN <<>>
  ELSE IF ~Truthy(body.cardDetails) \/ ~Truthy(OptionalNumber(body.cardDetails))
    THEN <<Fail(400, "invalid_card_details")>>
  ELSE IF OptionalNumber(body.cardDetails).t # "text"
    THEN <<Fail(500, "server_error")>>
  ELSE MagicCardResponse(cfg, Text(StripWhitespace(OptionalNumber(body.cardDetails).v)))

\* Math.random() < declineRate && cardDetails?.number !== testCards.success
RandomDecline(cfg, body, declRoll) ==
  /\ Triggered(declRoll, cfg.declineRate)
  /\ ~StrictEq(OptionalNumber(body.cardDetails), Prop(cfg.testCards, "success"))

\* !paymentMethod || !amount || !currency
MissingField(body) ==
  ~Truthy(body.paymentMethod) \/ ~Truthy(body.amount) \/ ~Truthy(body.currency)

\* faulty variant: the card checks come before the error roll
PaymentRejection_CardFirst(cfg, body, errRoll, declRoll) ==
  IF MissingField(body) THEN <<Fail(400, "invalid_request")>>
  ELSE IF body.paymentMethod \notin cfg.availablePaymentMethods
    THEN <<Fail(400, "invalid_payment_method")>>
  ELSE IF CardResponse(cfg, body) # <<>> THEN CardResponse(cfg, body)
  ELSE IF Triggered(errRoll, cfg.errorRate) THEN <<Fail(500, "processing_error")>>
  ELSE IF RandomDecline(cfg, body, declRoll) THEN <<Fail(402, "payment_declined")>>
  ELSE <<>>

PaymentRejection(cfg, body, errRoll, declRoll) ==
  IF MissingField(body) THEN <<Fail(400, "invalid_request")>>
  ELSE IF body.paymentMethod \notin cfg.availablePaymentMethods
    THEN <<Fail(400, "invalid_payment_method")>>
  ELSE IF Triggered(errRoll, cfg.errorRate) THEN <<Fail(500, "processing_error")>>
  ELSE IF CardResponse(cfg, body) # <<>> THEN CardResponse(cfg, body)
  ELSE IF RandomDecline(cfg, body, declRoll) THEN <<Fail(402, "payment_declined")>>
  ELSE <<>>

\* faulty variant: the transaction is created pending
NewTransaction_Pending(id, body, now) ==
  [id            |-> id,
   paymentMethod |-> body.paymentMethod,
   amount        |-> body.amount,
   currency      |-> body.currency,
   status        |-> "pending",
   createdAt     |-> now,
   metadata      |-> OrElse(body.metadata, Obj("{}")),
   billingInfo   |-> OrElse(body.billingInfo, Obj("{}")),
   refundedAt    |-> Undefined,
   refundAmount  |-> Undefined,
   refundReason  |-> Undefined]

\* faulty variant: the submitted metadata is not stored
NewTransaction_NoMetadata(id, body, now) ==
  [id            |-> id,
   paymentMethod |-> body.paymentMethod,
   amount        |-> body.amount,
   currency      |-> body.currency,
   status        |-> "succeeded",
   createdAt     |-> now,
   metadata      |-> Obj("{}"),
   billingInfo   |-> OrElse(body.billingInfo, Obj("{}")),
   refundedAt    |-> Undefined,
   refundAmount  |-> Undefined,
   refundReason  |-> Undefined]

\* the transaction object processPayment creates
NewTransaction(id, body, now) ==
  [id            |-> id,
   paymentMethod |-> body.paymentMethod,
   amount        |-> body.amount,
   currency      |-> body.currency,
   status        |-> "succeeded",
   createdAt     |-> now,
   metadata      |-> OrElse(body.metadata, Obj("{}")),
   billingInfo   |-> OrElse(body.billingInfo, Obj("{}")),
   refundedAt    |-> Undefined,
   refundAmount  |-> Undefined,
   refundReason  |-> Undefined]

\* the data of the 201 response
PaymentData(tx, body) ==
  [transactionId |-> tx.id,
   status        |-> tx.status,
   amount        |-> body.amount,
   currency      |-> body.currency,
   createdAt     |-> tx.createdAt]

\* the data getPayment returns
TransactionData(tx) ==
  [transactionId |-> tx.id,
   paymentMethod |-> tx.paymentMethod,
   amount        |-> tx.amount,
   currency      |-> tx.currency,
   status        |-> tx.status,
   createdAt     |-> tx.createdAt,
   metadata      |-> tx.metadata]

\* faulty variant: the status is left as it was
Refunded_KeepsStatus(tx, body, now) ==
  [tx EXCEPT !.refundedAt   = Num(now),
             !.refundAmount = OrElse(body.amount, tx.amount),
             !.refundReason = OrElse(body.reason, Str("customer_request"))]

\* faulty variant: the amount of the transaction becomes the amount refunded
Refunded_OverwritesAmount(tx, body, now) ==
  [tx EXCEPT !.status       = "refunded",
             !.refundedAt   = Num(now),
             !.amount       = OrElse(body.amount, tx.amount),
             !.refundAmount = OrElse(body.amount, tx.amount),
             !.refundReason = OrElse(body.reason, Str("customer_request"))]

\* the transaction after refundPayment has updated it
Refunded(tx, body, now) ==
  [tx EXCEPT !.status       = "refunded",
             !.refundedAt   = Num(now),
             !.refundAmount = OrElse(body.amount, tx.amount),
             !.refundReason = OrElse(body.reason, Str("customer_request"))]

\* faulty variant: the already-refunded check is missing
RefundRejection_NoRefundedCheck(cfg, txs, id, errRoll) ==
  IF id \notin DOMAIN txs THEN <<Fail(404, "transaction_not_found")>>
  ELSE IF Triggered(errRoll, cfg.errorRate)
    THEN <<Fail(500, "refund_processing_error")>>
  ELSE <<>>

\* faulty variant: the error roll comes before the lookup
RefundRejection_RollFirst(cfg, txs, id, errRoll) ==
  IF Triggered(errRoll, cfg.errorRate)
    THEN <<Fail(500, "refund_processing_error")>>
  ELSE IF id \notin DOMAIN txs THEN <<Fail(404, "transaction_not_found")>>
  ELSE IF txs[id].status = "refunded" THEN <<Fail(400, "already_refunded")>>
  ELSE <<>>

\* refundPayment: the checks that precede the update, in code order
RefundRejection(cfg, txs, id, errRoll) ==
  IF id \notin DOMAIN txs THEN <<Fail(404, "transaction_not_found")>>
  ELSE IF txs[id].status = "refunded" THEN <<Fail(400, "already_refunded")>>
  ELSE IF Triggered(errRoll, cfg.errorRate)
    THEN <<Fail(500, "refund_processing_error")>>
  ELSE <<>>

\* the data of a successful refund response
RefundData(tx) ==
  [transactionId |-> tx.id,
   status        |-> "refunded",
   refundAmount  |-> tx.refundAmount,
   refundedAt    |-> tx.refundedAt,
   reason        |-> tx.refundReason]

-----------------------------------------------------------------------------
(* The steps. *)

\* requests of the given kind whose delay is running
InflightOfKind(kind) ==
  LET rs == {r \in BagToSet(inflight) : r.kind = kind}
  IN  BagCardinality([r \in rs |-> inflight[r]])

Answer(r, res) ==
  /\ inflight' = inflight (-) SetToBag({r})
  /\ last' = [req |-> r, res |-> res]

\* a request body that bodyParser.json() cannot parse
Malformed == [t |-> "malformed"]

Unparseable(r) == "body" \in DOMAIN r /\ r.body = Malformed

\* bodyParser.json() fails on the body and calls next(err): Express skips the
\* delay middleware and the routes, and the error middleware answers
jsonError(r) ==
  /\ Unparseable(r)
  /\ last' = [req |-> r, res |-> Fail(500, "server_error")]
  /\ pinned' = NoLast
  /\ UNCHANGED <<config, transactions, nextId, inflight, submitted, cleared, clock>>
  /\ UNCHANGED <<process, network, owner, settled>>
  /\ quiet' = FALSE

\* the body is parsed, then the delay middleware: setTimeout(next, delay)
Request(r) ==
  /\ ~Unparseable(r)
  /\ r.kind = "processPayment" => nextId + InflightOfKind("processPayment") <= MaxTx
  /\ inflight' = inflight (+) SetToBag({r})
  /\ last' = NoLast
  /\ pinned' = NoLast
  /\ UNCHANGED <<config, transactions, nextId, submitted, cleared, clock>>
  /\ UNCHANGED <<process, network, owner, settled>>
  /\ quiet' = FALSE

\* faulty variant: the transaction is stored before the random decline is decided
processPayment_StoresBeforeDecline(r) ==
  /\ BagIn(r, inflight)
  /\ r.kind = "processPayment"
  /\ \E errRoll \in Rolls, declRoll \in Rolls :
       LET rejection == PaymentRejection(ConfigOf(r.to), r.body, errRoll, declRoll)
           tx == NewTransaction(nextId, r.body, clock)
       IN  IF rejection # <<>> /\ rejection[1].code # "payment_declined"
             THEN /\ Answer(r, rejection[1])
                  /\ UNCHANGED <<transactions, nextId, submitted, owner>>
             ELSE /\ transactions' = (tx.id :> tx) @@ transactions
                  /\ submitted' = (tx.id :> r.body) @@ submitted
                  /\ owner' = (tx.id :> r.to) @@ owner
                  /\ nextId' = nextId + 1
                  /\ Answer(r, IF rejection # <<>> THEN rejection[1]
                                ELSE Ok(201, PaymentData(tx, r.body)))
  /\ UNCHANGED <<config, cleared, pinned, clock, process, network, settled, quiet>>

\* faulty variant: every transaction gets the same identifier
processPayment_ReusesId(r) ==
  /\ BagIn(r, inflight)
  /\ r.kind = "processPayment"
  /\ \E errRoll \in Rolls, declRoll \in Rolls :
       LET rejection == PaymentRejection(ConfigOf(r.to), r.body, errRoll, declRoll)
           tx == NewTransaction(1, r.body, clock)
       IN  IF rejection # <<>>
             THEN /\ Answer(r, rejection[1])
                  /\ UNCHANGED <<transactions, nextId, submitted, owner>>
             ELSE /\ transactions' = (tx.id :> tx) @@ transactions
                  /\ submitted' = (tx.id :> r.body) @@ submitted
                  /\ owner' = (tx.id :> r.to) @@ owner
                  /\ nextId' = nextId + 1
                  /\ Answer(r, Ok(201, PaymentData(tx, r.body)))
  /\ UNCHANGED <<config, cleared, pinned, clock, process, network, settled, quiet>>

\* POST /api/payments
processPayment(r) ==
  /\ BagIn(r, inflight)
  /\ r.kind = "processPayment"
  /\ \E errRoll \in Rolls, declRoll \in Rolls :
       LET rejection == PaymentRejection(ConfigOf(r.to), r.body, errRoll, declRoll)
           tx == NewTransaction(nextId, r.body, clock)
       IN  IF rejection # <<>>
             THEN /\ Answer(r, rejection[1])
                  /\ UNCHANGED <<transactions, nextId, submitted, owner>>
             ELSE /\ transactions' = (tx.id :> tx) @@ transactions
                  /\ submitted' = (tx.id :> r.body) @@ submitted
                  /\ owner' = (tx.id :> r.to) @@ owner
                  /\ nextId' = nextId + 1
                  /\ Answer(r, Ok(201, PaymentData(tx, r.body)))
  /\ UNCHANGED <<config, cleared, pinned, clock, process, network, settled, quiet>>

\* faulty variant: a get of an identifier the store does not hold is never
\* answered
getPayment_HangsWhenMissing(r) ==
  /\ BagIn(r, inflight)
  /\ r.kind = "getPayment"
  /\ r.id \in DOMAIN transactions
  /\ Answer(r, Ok(200, TransactionData(transactions[r.id])))
  /\ UNCHANGED <<config, transactions, nextId, submitted, cleared, pinned, clock>>
  /\ UNCHANGED <<process, network, owner, settled, quiet>>

\* GET /api/payments/:id
getPayment(r) ==
  /\ BagIn(r, inflight)
  /\ r.kind = "getPayment"
  /\ IF r.id \notin DOMAIN transactions
       THEN Answer(r, Fail(404, "transaction_not_found"))
       ELSE Answer(r, Ok(200, TransactionData(transactions[r.id])))
  /\ UNCHANGED <<config, transactions, nextId, submitted, cleared, pinned, clock>>
  /\ UNCHANGED <<process, network, owner, settled, quiet>>

\* the successful refunds of a stored transaction so far
SettledOn(id) == IF id \in DOMAIN settled THEN settled[id] ELSE <<>>

\* res.json(data); success and code are fields of the model's response record
Json(data) == Ok(200, data)

\* GET /health
health(r) ==
  /\ BagIn(r, inflight)
  /\ r.kind = "health"
  /\ Answer(r, Json([status |-> "UP", service |-> "mock-payment-service"]))
  /\ UNCHANGED <<config, transactions, nextId, submitted, cleared, pinned, clock>>
  /\ UNCHANGED <<process, network, owner, settled, quiet>>

\* GET /api/payment-methods
paymentMethods(r) ==
  /\ BagIn(r, inflight)
  /\ r.kind = "paymentMethods"
  /\ Answer(r, Json([paymentMethods |-> ConfigOf(r.to).availablePaymentMethods,
                     preferences |-> [defaultMethod |-> "credit_card"]]))
  /\ UNCHANGED <<config, transactions, nextId, submitted, cleared, pinned, clock>>
  /\ UNCHANGED <<process, network, owner, settled, quiet>>

\* faulty variant: the transaction is updated before the error roll is decided
refundPayment_WritesBeforeRoll(r) ==
  /\ BagIn(r, inflight)
  /\ r.kind = "refundPayment"
  /\ \E errRoll \in Rolls :
       LET rejection == RefundRejection(ConfigOf(r.to), transactions, r.id, errRoll)
           tx == Refunded(transactions[r.id], r.body, clock)
       IN  IF rejection # <<>> /\ rejection[1].code # "refund_processing_error"
             THEN /\ Answer(r, rejection[1])
                  /\ UNCHANGED <<transactions, settled>>
             ELSE /\ transactions' = [transactions EXCEPT ![r.id] = tx]
                  /\ settled' = (r.id :> Append(SettledOn(r.id), RefundData(tx))) @@ settled
                  /\ Answer(r, IF rejection # <<>> THEN rejection[1]
                                ELSE Ok(200, RefundData(tx)))
  /\ UNCHANGED <<config, nextId, submitted, cleared, pinned, clock>>
  /\ UNCHANGED <<process, network, owner, quiet>>

\* faulty variant: a refund that hits the error roll stamps the transaction
refundPayment_StampsOnError(r) ==
  /\ BagIn(r, inflight)
  /\ r.kind = "refundPayment"
  /\ \E errRoll \in Rolls :
       LET rejection == RefundRejection(ConfigOf(r.to), transactions, r.id, errRoll)
           tx == Refunded(transactions[r.id], r.body, clock)
       IN  IF rejection # <<>>
             THEN /\ Answer(r, rejection[1])
                  /\ transactions' =
                       IF rejection[1].code = "refund_processing_error"
                         THEN [transactions EXCEPT
                                 ![r.id] = [tx EXCEPT !.status = "succeeded"]]
                         ELSE transactions
                  /\ UNCHANGED settled
             ELSE /\ transactions' = [transactions EXCEPT ![r.id] = tx]
                  /\ settled' = (r.id :> Append(SettledOn(r.id), RefundData(tx))) @@ settled
                  /\ Answer(r, Ok(200, RefundData(tx)))
  /\ UNCHANGED <<config, nextId, submitted, cleared, pinned, clock>>
  /\ UNCHANGED <<process, network, owner, quiet>>

\* faulty variant: a refund of an identifier the store does not hold puts a
\* refunded transaction under it
refundPayment_SetsBack(r) ==
  /\ BagIn(r, inflight)
  /\ r.kind = "refundPayment"
  /\ \E errRoll \in Rolls :
       LET rejection == RefundRejection(ConfigOf(r.to), transactions, r.id, errRoll)
           gone == [paymentMethod |-> Undefined, amount |-> Undefined,
                    currency |-> Undefined, metadata |-> Undefined,
                    billingInfo |-> Undefined]
           tx == IF r.id \in DOMAIN transactions
                   THEN Refunded(transactions[r.id], r.body, clock)
                   ELSE Refunded(NewTransaction(r.id, gone, clock), r.body, clock)
       IN  IF rejection # <<>> /\ r.id \in DOMAIN transactions
             THEN /\ Answer(r, rejection[1])
                  /\ UNCHANGED <<transactions, settled>>
             ELSE /\ transactions' = (r.id :> tx) @@ transactions
                  /\ settled' = (r.id :> Append(SettledOn(r.id), RefundData(tx))) @@ settled
                  /\ Answer(r, IF rejection # <<>> THEN rejection[1]
                                ELSE Ok(200, RefundData(tx)))
  /\ UNCHANGED <<config, nextId, submitted, cleared, pinned, clock>>
  /\ UNCHANGED <<process, network, owner, quiet>>

\* POST /api/payments/:id/refund
refundPayment(r) ==
  /\ BagIn(r, inflight)
  /\ r.kind = "refundPayment"
  /\ \E errRoll \in Rolls :
       LET rejection == RefundRejection(ConfigOf(r.to), transactions, r.id, errRoll)
           tx == Refunded(transactions[r.id], r.body, clock)
       IN  IF rejection # <<>>
             THEN /\ Answer(r, rejection[1])
                  /\ UNCHANGED <<transactions, settled>>
             ELSE /\ transactions' = [transactions EXCEPT ![r.id] = tx]
                  /\ settled' = (r.id :> Append(SettledOn(r.id), RefundData(tx))) @@ settled
                  /\ Answer(r, Ok(200, RefundData(tx)))
  /\ UNCHANGED <<config, nextId, submitted, cleared, pinned, clock>>
  /\ UNCHANGED <<process, network, owner, quiet>>

\* faulty variant: only the succeeded transactions are removed
resetTransactions_KeepsRefunded ==
  /\ transactions' =
       [id \in {i \in DOMAIN transactions : transactions[i].status = "refunded"} |->
          transactions[id]]
  /\ submitted' = <<>>
  /\ settled' = <<>>
  /\ cleared' = cleared \cup DOMAIN transactions
  /\ last' = NoLast
  /\ UNCHANGED <<config, nextId, inflight, pinned, clock, process, network, owner>>
  /\ quiet' = TRUE

\* faulty variant: the reset also cancels the requests that wait in their delay
resetTransactions_CancelsTimers ==
  /\ transactions' = <<>>
  /\ submitted' = <<>>
  /\ settled' = <<>>
  /\ cleared' = cleared \cup DOMAIN transactions
  /\ last' = NoLast
  /\ inflight' = EmptyBag
  /\ UNCHANGED <<config, nextId, pinned, clock, process, network, owner>>
  /\ quiet' = TRUE

\* transactions.clear()
resetTransactions ==
  /\ transactions' = <<>>
  /\ submitted' = <<>>
  /\ settled' = <<>>
  /\ cleared' = cleared \cup DOMAIN transactions
  /\ last' = NoLast
  /\ UNCHANGED <<config, nextId, inflight, pinned, clock, process, network, owner>>
  /\ quiet' = TRUE

\* time passes between two steps
Tick ==
  /\ clock + 1 \in Times
  /\ clock' = clock + 1
  /\ last' = NoLast
  /\ UNCHANGED <<config, transactions, nextId, inflight, submitted, cleared, pinned>>
  /\ UNCHANGED <<process, network, owner, settled, quiet>>

-----------------------------------------------------------------------------
(* Requests. *)

PaymentBody(paymentMethod, amount, currency, cardDetails, metadata, billingInfo) ==
  [paymentMethod |-> paymentMethod, amount |-> amount, currency |-> currency,
   cardDetails |-> cardDetails, metadata |-> metadata, billingInfo |-> billingInfo]

CardDetails(number) == Obj([number |-> number, cvv |-> Str("123")])

\* the requests are sent to the instance under study unless SentTo says otherwise
PaymentRequest(body) == [kind |-> "processPayment", to |-> This, body |-> body]
GetRequest(id) == [kind |-> "getPayment", to |-> This, id |-> id]
RefundRequest(id, amount, reason) ==
  [kind |-> "refundPayment", to |-> This, id |-> id,
   body |-> [amount |-> amount, reason |-> reason]]

HealthRequest == [kind |-> "health", to |-> This]
PaymentMethodsRequest == [kind |-> "paymentMethods", to |-> This]

SentTo(i, r) == [r EXCEPT !.to = i]

\* a card number written in groups of four separated by spaces
Spaced(cs) == <<cs[1], " ", cs[2], " ", cs[3], " ", cs[4]>>

\* a card number that is none of the test cards
CardOrdinary == <<"4242", "4242", "4242", "4242">>

\* one instance in a fresh process, before any start()
Alone ==
  /\ written = <<>>
  /\ peer = <<>>
  /\ owner = <<>>
  /\ settled = <<>>
  /\ server = 0
  /\ listeners = <<>>
  /\ quiet = FALSE

\* identifiers a caller may name: 0 is never handed out
RequestIds == 0 .. MaxTx

\* the configurations with both probabilities at 0, and the default one
ZeroRates == [errorRate |-> 0, declineRate |-> 0]
NoOverride == [x \in {} |-> 0]

-----------------------------------------------------------------------------
(* Spec: one caller that issues its requests one after the other against    *)
(* one instance: payments, reads, refunds and resets.                       *)

LifecycleBodies ==
  { PaymentBody(Str("credit_card"), Num(100), Str("USD"),
                CardDetails(Text(CardSuccess)), Obj("{order:A1}"), Undefined),
    PaymentBody(Str("paypal"), Num(250), Str("EUR"),
                Undefined, Undefined, Obj("{city:Oslo}")),
    PaymentBody(Str("credit_card"), Num(100), Str("USD"),
                CardDetails(Text(CardDecline)), Undefined, Undefined) }

LifecycleRefunds ==
  { <<Undefined, Undefined>>, <<Num(30), Str("duplicate")>> }

LifecycleRequests ==
  {PaymentRequest(b) : b \in LifecycleBodies}
    \cup {GetRequest(id) : id \in RequestIds}
    \cup {RefundRequest(id, rf[1], rf[2]) : id \in RequestIds, rf \in LifecycleRefunds}

Init ==
  /\ config \in {Construct(ZeroRates), Construct(NoOverride)}
  /\ aliased = {This}
  /\ transactions = <<>>
  /\ nextId = 1
  /\ inflight = EmptyBag
  /\ last = NoLast
  /\ submitted = <<>>
  /\ cleared = {}
  /\ pinned = NoLast
  /\ clock = 1
  /\ Alone

Next ==
  \/ \E r \in LifecycleRequests : inflight = EmptyBag /\ Request(r)
  \/ \E r \in BagToSet(inflight) : processPayment(r)
  \/ \E r \in BagToSet(inflight) : getPayment(r)
  \/ \E r \in BagToSet(inflight) : refundPayment(r)
  \/ resetTransactions
  \/ Tick

Spec == Init /\ [][Next]_vars

-----------------------------------------------------------------------------
(* SpecPay: one caller that submits payment requests one after the other,   *)
(* in every shape the handler tells apart, against an instance built with   *)
(* one of four configurations, and may send the request just answered once  *)
(* more.                                                                    *)

\* another number for the expired card than the default, which repeats the
\* number of the error card
CardExpiredOther == <<"4000", "0000", "0000", "0341">>

DistinctTestCards == [DefaultTestCards EXCEPT !.expiredCard = Text(CardExpiredOther)]

PayConfigs ==
  { Construct(NoOverride),
    Construct(ZeroRates),
    Construct([errorRate |-> 0, declineRate |-> 100]),
    Construct([errorRate |-> 0, declineRate |-> 0, testCards |-> DistinctTestCards]) }

\* the card details a request may carry
PayCards ==
  { Undefined,
    Obj([cvv |-> Str("123")]),
    CardDetails(Text(<<>>)),
    CardDetails(Num(4111)),
    CardDetails(Text(CardSuccess)),
    CardDetails(Text(Spaced(CardSuccess))),
    CardDetails(Text(CardDecline)),
    CardDetails(Text(Spaced(CardDecline))),
    CardDetails(Text(CardError)),
    CardDetails(Text(CardCvvError)),
    CardDetails(Text(CardExpired)),
    CardDetails(Text(CardExpiredOther)),
    CardDetails(Text(CardInsufficientFunds)),
    CardDetails(Text(CardInvalid)),
    CardDetails(Text(CardOrdinary)) }

PayBodies ==
  \* the required fields, present or not
  { PaymentBody(m, a, c, CardDetails(Text(CardSuccess)), Undefined, Undefined) :
      m \in {Undefined, Str("credit_card"), Str("paypal"), Str("bitcoin")},
      a \in {Undefined, Num(0), Num(100)},
      c \in {Undefined, Str("USD")} }
  \* card payments, for every card, with two amounts and currencies
  \cup { PaymentBody(Str("credit_card"), ac[1], ac[2], card, Undefined, Undefined) :
      ac \in {<<Num(100), Str("USD")>>, <<Num(250), Str("EUR")>>},
      card \in PayCards }
  \* a method that needs no card
  \cup { PaymentBody(Str("paypal"), Num(100), Str("USD"), card, Undefined, Undefined) :
      card \in {Undefined, CardDetails(Text(CardDecline)),
                CardDetails(Text(CardSuccess))} }

InitPay ==
  /\ config \in PayConfigs
  /\ aliased = IF config.testCards = DistinctTestCards THEN {} ELSE {This}
  /\ transactions = <<>>
  /\ nextId = 1
  /\ inflight = EmptyBag
  /\ last = NoLast
  /\ submitted = <<>>
  /\ cleared = {}
  /\ pinned = NoLast
  /\ clock = 1
  /\ Alone

\* the caller sends the payment request just answered once more
Resubmit ==
  /\ last.req.kind = "processPayment"
  /\ inflight = EmptyBag
  /\ nextId <= MaxTx
  /\ inflight' = SetToBag({last.req})
  /\ pinned' = last
  /\ last' = NoLast
  /\ UNCHANGED <<config, transactions, nextId, submitted, cleared, clock>>
  /\ UNCHANGED <<process, network, owner, settled>>
  /\ quiet' = FALSE

NextPay ==
  \/ \E b \in PayBodies : inflight = EmptyBag /\ Request(PaymentRequest(b))
  \/ \E r \in BagToSet(inflight) : processPayment(r)
  \/ Resubmit

SpecPay == InitPay /\ [][NextPay]_vars

-----------------------------------------------------------------------------
(* What the steps are, seen from two consecutive states. *)

\* this step is a handler answering a request of the given kind
Answers(kind) ==
  /\ BagCardinality(inflight') < BagCardinality(inflight)
  /\ last'.req.kind = kind

NotFound == Fail(404, "transaction_not_found")

-----------------------------------------------------------------------------
(* Claims checked under Spec. *)

\* C1: a refund that succeeds finds the transaction succeeded and leaves it
\* refunded; a refund request handled on a stored transaction that is already
\* refunded is answered 400 already_refunded and leaves the transaction, its
\* refundAmount, refundedAt and refundReason included, as it was.
C1_RefundOnce ==
  [][Answers("refundPayment") =>
       LET id == last'.req.id
       IN  /\ last'.res.success =>
                /\ id \in DOMAIN transactions
                /\ transactions[id].status = "succeeded"
                /\ transactions'[id].status = "refunded"
           /\ (id \in DOMAIN transactions /\ transactions[id].status = "refunded") =>
                /\ last'.res = Fail(400, "already_refunded")
                /\ transactions' = transactions]_vars

\* C1 witness: a second refund, asking for another amount at a later time, has
\* been answered already_refunded
C1_Witness ==
  /\ last.req.kind = "refundPayment"
  /\ last.res.code = "already_refunded"
  /\ last.req.id \in DOMAIN transactions
  /\ transactions[last.req.id].status = "refunded"
  /\ transactions[last.req.id].refundedAt = Num(1)
  /\ clock = 2
  /\ last.req.body.amount = Num(30)
  /\ transactions[last.req.id].refundAmount = Num(100)

\* C2: every stored transaction is succeeded or refunded, a transaction enters
\* the store succeeded, and the only status change of a stored transaction is
\* from succeeded to refunded.
C2_StatusTransitions ==
  /\ [](\A id \in DOMAIN transactions :
          transactions[id].status \in {"succeeded", "refunded"})
  /\ [][\A id \in DOMAIN transactions' :
          IF id \in DOMAIN transactions
            THEN \/ transactions'[id].status = transactions[id].status
                 \/ /\ transactions[id].status = "succeeded"
                    /\ transactions'[id].status = "refunded"
            ELSE transactions'[id].status = "succeeded"]_vars

\* C2 witness: a refund has just succeeded, and the store holds a refunded and
\* a succeeded transaction
C2_Witness ==
  /\ \E id \in DOMAIN transactions : transactions[id].status = "refunded"
  /\ \E id \in DOMAIN transactions : transactions[id].status = "succeeded"
  /\ last.req.kind = "refundPayment"
  /\ last.res.success

\* C7: a successful payment returns the identifier under which its body is
\* stored, and a get on a stored identifier succeeds and returns the submitted
\* paymentMethod, amount and currency and the submitted metadata (the empty
\* object when none was submitted), with status succeeded as long as no refund
\* has succeeded on it.
C7_GetAfterPayment ==
  /\ (last.req.kind = "processPayment" /\ last.res.success) =>
       /\ last.res.data.transactionId \in DOMAIN submitted
       /\ submitted[last.res.data.transactionId] = last.req.body
  /\ (last.req.kind = "getPayment" /\ last.req.id \in DOMAIN submitted) =>
       LET body == submitted[last.req.id]
           data == last.res.data
       IN  /\ last.res.success
           /\ last.res.status = 200
           /\ data.transactionId = last.req.id
           /\ data.paymentMethod = body.paymentMethod
           /\ data.amount = body.amount
           /\ data.currency = body.currency
           /\ data.metadata = OrElse(body.metadata, Obj("{}"))
           /\ transactions[last.req.id].refundedAt = Undefined =>
                data.status = "succeeded"

\* C7 witness: a get has returned a succeeded transaction with its metadata
C7_Witness ==
  /\ last.req.kind = "getPayment"
  /\ last.res.success
  /\ last.res.data.status = "succeeded"
  /\ last.res.data.metadata = Obj("{order:A1}")
  /\ last.res.data.amount = Num(100)

\* C8: a refund or a get that names an identifier that is not in the store is
\* answered 404 transaction_not_found, whatever the error roll, and leaves the
\* store as it was.
C8_UnknownIdentifier ==
  [][(Answers("refundPayment") \/ Answers("getPayment")) =>
       (last'.req.id \notin DOMAIN transactions =>
          /\ last'.res = NotFound
          /\ transactions' = transactions)]_vars

\* C8 witness: with a positive error rate, a refund of an unknown identifier
\* has been answered transaction_not_found while the store holds a transaction
C8_Witness ==
  /\ config.errorRate > 0
  /\ last.req.kind = "refundPayment"
  /\ last.res = NotFound
  /\ last.req.id \notin DOMAIN transactions
  /\ transactions # <<>>

\* C9: a reset leaves the store empty whatever it held; an identifier a reset
\* has removed is never in the store again, and a get on it is answered
\* transaction_not_found.
C9_ResetClears ==
  /\ [][cleared' # cleared => transactions' = <<>>]_vars
  /\ [](\A id \in cleared : id \notin DOMAIN transactions)
  /\ []((last.req.kind = "getPayment" /\ last.req.id \in cleared) =>
          last.res = NotFound)

\* C9 witness: a get on an identifier that a reset removed when it was refunded
\* has been answered transaction_not_found, after a later payment was stored
C9_Witness ==
  /\ last.req.kind = "getPayment"
  /\ last.req.id \in cleared
  /\ last.res = NotFound
  /\ transactions # <<>>

-----------------------------------------------------------------------------
(* Claims checked under SpecPay. *)

FailureCodes ==
  {"invalid_request", "invalid_payment_method", "processing_error",
   "invalid_card_details", "card_declined", "invalid_cvv", "expired_card",
   "insufficient_funds", "invalid_card", "payment_declined", "server_error"}

\* C3: a payment request that is answered with a failure is answered with one
\* of the eleven failure codes and leaves the store exactly as it was.
C3_FailureLeavesStore ==
  [][(Answers("processPayment") /\ ~last'.res.success) =>
       /\ last'.res.code \in FailureCodes
       /\ transactions' = transactions
       /\ nextId' = nextId]_vars

\* C3 witness: a payment whose card number is no string has been answered
\* server_error while the store holds a transaction
C3_Witness ==
  /\ last.req.kind = "processPayment"
  /\ last.res.code = "server_error"
  /\ transactions # <<>>

\* C4, as claimed: with both probabilities at 0, a credit_card payment that
\* carries the success card number and an amount and a currency is answered 201
\* succeeded with the submitted amount and currency, and stores exactly one new
\* transaction.
C4_SuccessCardSucceeds ==
  [][(/\ Answers("processPayment")
      /\ config.errorRate = 0
      /\ config.declineRate = 0
      /\ last'.req.body.paymentMethod = Str("credit_card")
      /\ OptionalNumber(last'.req.body.cardDetails) = config.testCards.success
      /\ last'.req.body.amount.t = "number"
      /\ last'.req.body.currency.t = "string") =>
       /\ last'.res.success
       /\ last'.res.status = 201
       /\ last'.res.data.status = "succeeded"
       /\ last'.res.data.amount = last'.req.body.amount
       /\ last'.res.data.currency = last'.req.body.currency
       /\ last'.res.data.transactionId \notin DOMAIN transactions
       /\ DOMAIN transactions' = DOMAIN transactions \cup {last'.res.data.transactionId}]_vars

\* the error code each failure test card stands for
CardCode ==
  [decline           |-> "card_declined",
   error             |-> "processing_error",
   cvvError          |-> "invalid_cvv",
   expiredCard       |-> "expired_card",
   insufficientFunds |-> "insufficient_funds",
   invalidCard       |-> "invalid_card"]

\* C5, as claimed: with error probability 0, a credit_card payment with its
\* required fields that carries one of the six failure test cards of the
\* configuration is answered with that card's own error code.
C5_MagicCardCodes ==
  (/\ last.req.kind = "processPayment"
   /\ config.errorRate = 0
   /\ last.req.body.paymentMethod = Str("credit_card")
   /\ ~MissingField(last.req.body)) =>
    \A name \in DOMAIN CardCode :
      OptionalNumber(last.req.body.cardDetails) = config.testCards[name] =>
        last.res.code = CardCode[name]

\* C6, as claimed: a payment whose card number, stripped of whitespace, is the
\* success card number is never answered payment_declined.
C6_SuccessCardNeverDeclined ==
  (/\ last.req.kind = "processPayment"
   /\ OptionalNumber(last.req.body.cardDetails).t = "text"
   /\ Text(StripWhitespace(OptionalNumber(last.req.body.cardDetails).v))
        = config.testCards.success) =>
    last.res.code # "payment_declined"

\* success or the error code, and the HTTP status
Outcome(res) == <<res.success, res.status, res.code>>

\* C10: with both probabilities at 0, a payment request that is sent again gets
\* the outcome it got the first time, whatever the draws and whatever the store
\* holds by then.
C10_Deterministic ==
  (/\ config.errorRate = 0
   /\ config.declineRate = 0
   /\ pinned.req.kind = "processPayment"
   /\ last.req = pinned.req) =>
    Outcome(last.res) = Outcome(pinned.res)

\* C10 witness: the same request has succeeded twice, the second time against
\* a store that already held the first transaction
C10_Witness ==
  /\ config.errorRate = 0
  /\ config.declineRate = 0
  /\ pinned.req.kind = "processPayment"
  /\ last.req = pinned.req
  /\ pinned.res.success
  /\ last.res.success
  /\ last.res.data.transactionId # pinned.res.data.transactionId
  /\ pinned.res.data.transactionId \in DOMAIN transactions

-----------------------------------------------------------------------------
(* SpecFields: one caller that submits payment requests whose required      *)
(* fields are missing, empty, zero, negative or ordinary, one after the     *)
(* other.                                                                   *)

FieldBodies ==
  { PaymentBody(m, a, c, Undefined, Undefined, Undefined) :
      m \in {Undefined, Str(""), Str("paypal"), Str("bitcoin")},
      a \in {Undefined, Num(0), Num(-5), Num(100)},
      c \in {Undefined, Str(""), Str("USD")} }

NextFields ==
  \/ \E b \in FieldBodies : inflight = EmptyBag /\ Request(PaymentRequest(b))
  \/ \E r \in BagToSet(inflight) : processPayment(r)
  \/ resetTransactions

SpecFields == Init /\ [][NextFields]_vars

\* the field was left out of the body, or is the empty string
Absent(x) == x.t = "undefined" \/ x = Str("")

\* C11, as claimed: a payment request is answered invalid_request exactly when
\* its paymentMethod, amount or currency is absent; a numeric amount, zero and
\* negative included, next to a supported method and a currency is never
\* answered invalid_request.
C11_MissingFields ==
  last.req.kind = "processPayment" =>
    LET body == last.req.body
    IN  /\ (last.res.code = "invalid_request") <=>
              (Absent(body.paymentMethod) \/ Absent(body.amount) \/ Absent(body.currency))
        /\ (/\ body.paymentMethod \in config.availablePaymentMethods
            /\ body.amount.t = "number"
            /\ ~Absent(body.currency)) => last.res.code # "invalid_request"

-----------------------------------------------------------------------------
(* SpecRefund: one caller that pays and then asks for refunds of nothing,   *)
(* of zero, of a part, of more than was paid and of a negative amount, one  *)
(* request after the other.                                                 *)

RefundPayments ==
  { PaymentBody(Str("paypal"), Num(100), Str("USD"), Undefined, Undefined, Undefined) }

\* the amount and the reason of a refund request
RefundBodies ==
  { <<Undefined, Undefined>>,
    <<Num(0), Undefined>>,
    <<Num(30), Str("duplicate")>>,
    <<Num(500), Str("")>>,
    <<Num(-5), Str("duplicate")>> }

RefundRequests ==
  {PaymentRequest(b) : b \in RefundPayments}
    \cup {RefundRequest(id, rf[1], rf[2]) : id \in RequestIds, rf \in RefundBodies}

NextRefund ==
  \/ \E r \in RefundRequests : inflight = EmptyBag /\ Request(r)
  \/ \E r \in BagToSet(inflight) : processPayment(r)
  \/ \E r \in BagToSet(inflight) : refundPayment(r)
  \/ resetTransactions

SpecRefund == Init /\ [][NextRefund]_vars

\* C12, as claimed: after a successful refund the refundAmount, stored and
\* returned, is the amount the caller supplied, whatever number it is, and the
\* full original amount when the caller supplied none; the reason is the one
\* supplied, or customer_request.
C12_RefundFields ==
  (last.req.kind = "refundPayment" /\ last.res.success) =>
    LET body == last.req.body
        tx == transactions[last.req.id]
        amount == IF body.amount.t = "number" THEN body.amount ELSE tx.amount
        reason == IF Absent(body.reason) THEN Str("customer_request") ELSE body.reason
    IN  /\ tx.refundAmount = amount
        /\ tx.refundReason = reason
        /\ last.res.data.refundAmount = amount
        /\ last.res.data.reason = reason

\* C13, as claimed: every refunded transaction in the store has a refundAmount
\* that is at most its original amount.
C13_RefundWithinAmount ==
  \A id \in DOMAIN transactions :
    transactions[id].status = "refunded" =>
      transactions[id].refundAmount.v <= transactions[id].amount.v

-----------------------------------------------------------------------------
(* SpecProcess: a test process that builds a second instance of the class,  *)
(* sends its requests to either instance, one after the other, and calls    *)
(* getTestCards and resetTransactions.  The Map `transactions` and the      *)
(* object DEFAULT_CONFIG belong to the module, so there is one of each in   *)
(* the process.  An object that several places refer to is kept as one copy *)
(* per place, and a write to it updates every copy.                         *)

\* the instances constructed so far
Instances == IF peer = <<>> THEN {This} ELSE {This, Peer}

\* new MockPaymentService(cfg), for the second time in the process
ConstructPeer(cfg) ==
  /\ peer = <<>>
  /\ peer' = <<Merge(DefaultsAfter(written), cfg)>>
  /\ aliased' = IF "testCards" \in DOMAIN cfg THEN aliased ELSE aliased \cup {Peer}
  /\ last' = NoLast
  /\ UNCHANGED <<config, transactions, nextId, inflight, submitted, cleared, pinned, clock>>
  /\ UNCHANGED <<written, network, owner, settled, quiet>>

\* what a method call returns
Returned(value) == Ok(0, value)

\* the object this.config.testCards of instance i refers to
TestCardsOf(i) == IF i \in aliased THEN "DEFAULT_CONFIG.testCards" ELSE "config.testCards"

\* getTestCards() { return this.config.testCards; }
getTestCards(i) ==
  /\ i \in Instances
  /\ last' = [req |-> [kind |-> "getTestCards", to |-> i],
              res |-> Returned(Str(TestCardsOf(i)))]
  /\ UNCHANGED <<config, transactions, nextId, inflight, submitted, cleared, pinned, clock>>
  /\ UNCHANGED <<process, network, owner, settled, quiet>>

\* the caller sets a property of the object getTestCards has just returned
SetTestCard(name, number) ==
  /\ last.req.kind = "getTestCards"
  /\ LET i == last.req.to
         refers(j) == j = i \/ (i \in aliased /\ j \in aliased)
     IN  /\ written' = IF i \in aliased THEN SetProp(written, name, number) ELSE written
         /\ config' = IF refers(This)
                        THEN [config EXCEPT !.testCards = SetProp(@, name, number)]
                        ELSE config
         /\ peer' = IF peer # <<>> /\ refers(Peer)
                      THEN <<[peer[1] EXCEPT !.testCards = SetProp(@, name, number)]>>
                      ELSE peer
  /\ UNCHANGED <<transactions, nextId, inflight, last, submitted, cleared, pinned, clock>>
  /\ UNCHANGED <<aliased, network, owner, settled, quiet>>

\* the arguments of the second construction
PeerOverrides == {NoOverride, [testCards |-> DistinctTestCards]}

\* the properties a caller sets, and their new values
CardWrites == {<<"decline", Text(CardOrdinary)>>, <<"success", Text(CardOrdinary)>>}

ProcessBodies ==
  { PaymentBody(Str("paypal"), Num(100), Str("USD"), Undefined, Undefined, Undefined),
    PaymentBody(Str("credit_card"), Num(100), Str("USD"),
                CardDetails(Text(CardDecline)), Undefined, Undefined) }

ProcessRequests ==
  {PaymentRequest(b) : b \in ProcessBodies}
    \cup {GetRequest(id) : id \in RequestIds}
    \cup {RefundRequest(id, Undefined, Undefined) : id \in RequestIds}

InitProcess ==
  /\ config = Construct(ZeroRates)
  /\ aliased = {This}
  /\ transactions = <<>>
  /\ nextId = 1
  /\ inflight = EmptyBag
  /\ last = NoLast
  /\ submitted = <<>>
  /\ cleared = {}
  /\ pinned = NoLast
  /\ clock = 1
  /\ Alone

NextProcess ==
  \/ \E cfg \in PeerOverrides : ConstructPeer(cfg)
  \/ \E i \in Instances, r \in ProcessRequests :
       inflight = EmptyBag /\ Request(SentTo(i, r))
  \/ \E r \in BagToSet(inflight) : processPayment(r)
  \/ \E r \in BagToSet(inflight) : getPayment(r)
  \/ \E r \in BagToSet(inflight) : refundPayment(r)
  \/ \E i \in Instances : inflight = EmptyBag /\ getTestCards(i)
  \/ \E w \in CardWrites : SetTestCard(w[1], w[2])
  \/ resetTransactions

SpecProcess == InitProcess /\ [][NextProcess]_vars

\* C14, as claimed: each instance owns its store exclusively: a get or a refund
\* sent to one instance on a transaction that the other instance created is
\* answered transaction_not_found, and a reset removes the transactions of one
\* instance only.
C14_OwnStore ==
  /\ []((/\ last.req.kind \in {"getPayment", "refundPayment"}
         /\ last.req.id \in DOMAIN owner
         /\ owner[last.req.id] # last.req.to) => last.res = NotFound)
  /\ [][cleared' # cleared =>
          \E i \in Instances : \A id \in DOMAIN transactions : owner[id] = i]_vars

\* the card numbers a request may carry
RoutedCards ==
  {Text(c) : c \in {CardSuccess, CardDecline, CardError, CardCvvError, CardExpired,
                     CardInsufficientFunds, CardInvalid, CardOrdinary}}

\* C15, as claimed: whatever the callers have done, among it setting a property
\* of the object getTestCards returned, the instance routes every card number
\* as it did when it was constructed, and an instance constructed later without
\* test cards of its own has the test cards DEFAULT_CONFIG was defined with.
C15_RoutingFixed ==
  /\ \A n \in RoutedCards :
       /\ MagicCardResponse(config, n) = MagicCardResponse(Construct(ZeroRates), n)
       /\ StrictEq(n, config.testCards.success) = StrictEq(n, DefaultTestCards.success)
  /\ (peer # <<>> /\ Peer \in aliased) => peer[1].testCards = DefaultTestCards

-----------------------------------------------------------------------------
(* SpecRoutes: one caller that uses every route and every public method of  *)
(* one instance, one request after the other: requests that succeed, that   *)
(* fail a check, that make the handler throw, and whose body cannot be      *)
(* parsed.                                                                  *)

RouteBodies ==
  { PaymentBody(Str("paypal"), Num(100), Str("USD"), Undefined, Undefined, Undefined),
    PaymentBody(Str("paypal"), Undefined, Str("USD"), Undefined, Undefined, Undefined),
    PaymentBody(Str("bitcoin"), Num(100), Str("USD"), Undefined, Undefined, Undefined),
    PaymentBody(Str("credit_card"), Num(100), Str("USD"),
                CardDetails(Text(CardDecline)), Undefined, Undefined),
    PaymentBody(Str("credit_card"), Num(100), Str("USD"),
                CardDetails(Num(4111)), Undefined, Undefined),
    PaymentBody(Str("credit_card"), Num(100), Str("USD"),
                CardDetails(Obj("{}")), Undefined, Undefined) }

RouteRequests ==
  {HealthRequest, PaymentMethodsRequest}
    \cup {PaymentRequest(b) : b \in RouteBodies}
    \cup {GetRequest(id) : id \in RequestIds}
    \cup {RefundRequest(id, Undefined, Undefined) : id \in RequestIds}

\* requests with a body that is not JSON
UnparseableRequests ==
  {[kind |-> "processPayment", to |-> This, body |-> Malformed]}
    \cup {[kind |-> "refundPayment", to |-> This, id |-> id, body |-> Malformed] :
           id \in RequestIds}

NextRoutes ==
  \/ \E r \in RouteRequests : inflight = EmptyBag /\ Request(r)
  \/ \E r \in UnparseableRequests : inflight = EmptyBag /\ jsonError(r)
  \/ \E r \in BagToSet(inflight) : health(r)
  \/ \E r \in BagToSet(inflight) : paymentMethods(r)
  \/ \E r \in BagToSet(inflight) : processPayment(r)
  \/ \E r \in BagToSet(inflight) : getPayment(r)
  \/ \E r \in BagToSet(inflight) : refundPayment(r)
  \/ inflight = EmptyBag /\ getTestCards(This)
  \/ resetTransactions

SpecRoutes == Init /\ [][NextRoutes]_vars

\* this step answers a request sent to a route
RouteKinds == {"health", "paymentMethods", "processPayment", "getPayment", "refundPayment"}

AnswersRoute == last' # last /\ last'.req.kind \in RouteKinds

\* C16: the store changes only when a payment succeeds, which adds one
\* transaction, when a refund succeeds, which changes the refunded transaction
\* only, and when resetTransactions empties it; a health check, a list of the
\* payment methods, a get, a getTestCards and every request that fails leave
\* it as it was.
C16_StoreChanges ==
  /\ [][transactions' # transactions =>
          \/ /\ Answers("processPayment")
             /\ last'.res.success
             /\ last'.res.data.transactionId \notin DOMAIN transactions
             /\ DOMAIN transactions' =
                  DOMAIN transactions \cup {last'.res.data.transactionId}
             /\ \A id \in DOMAIN transactions : transactions'[id] = transactions[id]
          \/ /\ Answers("refundPayment")
             /\ last'.res.success
             /\ DOMAIN transactions' = DOMAIN transactions
             /\ \A id \in DOMAIN transactions \ {last'.req.id} :
                  transactions'[id] = transactions[id]
          \/ /\ cleared' # cleared
             /\ transactions' = <<>>]_vars
  /\ [][(\/ (AnswersRoute /\ last'.req.kind \in {"health", "paymentMethods", "getPayment"})
          \/ (last' # last /\ last'.req.kind = "getTestCards")
          \/ (AnswersRoute /\ ~last'.res.success)) =>
          (transactions' = transactions /\ nextId' = nextId)]_vars

\* C16 witness: a health check has been answered while the store holds a
\* refunded transaction
C16_Witness ==
  /\ last.req.kind = "health"
  /\ last.res.status = 200
  /\ \E id \in DOMAIN transactions : transactions[id].status = "refunded"

\* the handler of this payment request reaches the card number, which is
\* present and no string
NumberNoString(r) ==
  /\ r.kind = "processPayment"
  /\ ~Unparseable(r)
  /\ ~MissingField(r.body)
  /\ r.body.paymentMethod = Str("credit_card")
  /\ Truthy(OptionalNumber(r.body.cardDetails))
  /\ OptionalNumber(r.body.cardDetails).t # "text"

\* C18: a request whose body cannot be parsed is answered 500 server_error; a
\* card payment whose card number is present and no string is answered
\* 500 server_error unless the error roll has answered it before; both leave
\* the store as it was.
C18_UnexpectedError ==
  [][AnswersRoute =>
       /\ Unparseable(last'.req) =>
            /\ last'.res = Fail(500, "server_error")
            /\ transactions' = transactions
            /\ nextId' = nextId
       /\ NumberNoString(last'.req) =>
            /\ last'.res.code # "processing_error" => last'.res = Fail(500, "server_error")
            /\ config.errorRate = 0 => last'.res = Fail(500, "server_error")
            /\ last'.res.status = 500
            /\ transactions' = transactions
            /\ nextId' = nextId]_vars

\* C18 witness: a card payment whose card number is the number 4111 has been
\* answered server_error although the error roll could have answered it, and
\* the store still holds its transaction
C18_Witness ==
  /\ NumberNoString(last.req)
  /\ config.errorRate > 0
  /\ last.res = Fail(500, "server_error")
  /\ transactions # <<>>

\* C20, as claimed: a request to any route, whatever its outcome, is answered
\* only by a step that ends its delay, and the store is written only by such a
\* step or by resetTransactions.
C20_DelayFirst ==
  [][/\ AnswersRoute =>
          (BagIn(last'.req, inflight) /\ inflight' = inflight (-) SetToBag({last'.req}))
     /\ (transactions' # transactions /\ cleared' = cleared) =>
          (AnswersRoute /\ BagIn(last'.req, inflight))]_vars

-----------------------------------------------------------------------------
(* SpecRace: callers that pay once and then send refund requests for that   *)
(* transaction without waiting for the answers.  Every request draws its    *)
(* own delay, so the handlers of the requests in flight run in any order;   *)
(* a handler itself is synchronous and runs to its end.                     *)

RacePayment ==
  PaymentBody(Str("paypal"), Num(100), Str("USD"), Undefined, Undefined, Undefined)

\* the amount and the reason each racing refund asks for
RaceRefunds ==
  { <<Undefined, Undefined>>, <<Num(0), Str("")>>,
    <<Num(30), Str("duplicate")>>, <<Num(40), Str("fraud")>> }

NextRace ==
  \/ /\ transactions = <<>>
     /\ inflight = EmptyBag
     /\ Request(PaymentRequest(RacePayment))
  \/ \E rf \in RaceRefunds :
       /\ BagCardinality(inflight) < MaxInflight
       /\ Request(RefundRequest(1, rf[1], rf[2]))
  \/ \E r \in BagToSet(inflight) : processPayment(r)
  \/ \E r \in BagToSet(inflight) : refundPayment(r)
  \/ Tick

SpecRace == Init /\ [][NextRace]_vars

\* the refund fields of a stored transaction, named as the response names them
RefundFields(tx) ==
  [refundAmount |-> tx.refundAmount, refundedAt |-> tx.refundedAt,
   reason |-> tx.refundReason]

\* the refund fields a successful response returned
ReturnedFields(data) ==
  [refundAmount |-> data.refundAmount, refundedAt |-> data.refundedAt,
   reason |-> data.reason]

\* C17: however the handlers of concurrent refund requests for one succeeded
\* transaction interleave, at most one of them succeeds; each of the others
\* is answered already_refunded or refund_processing_error and changes
\* nothing, already_refunded once one has succeeded; the refund fields stored
\* are those returned to the request that succeeded: its own amount or the
\* full amount, its own reason or customer_request, and the time it was handled.
C17_OneRefundWins ==
  /\ [](\A id \in DOMAIN settled :
          /\ Len(settled[id]) = 1
          /\ transactions[id].status = "refunded"
          /\ RefundFields(transactions[id]) = ReturnedFields(settled[id][1]))
  /\ [][Answers("refundPayment") /\ last'.req.id \in DOMAIN transactions =>
          LET id == last'.req.id
              body == last'.req.body
          IN  IF last'.res.success
                THEN /\ transactions[id].status = "succeeded"
                     /\ settled'[id] = <<last'.res.data>>
                     /\ last'.res.data.refundAmount \in {body.amount, transactions[id].amount}
                     /\ last'.res.data.reason \in {body.reason, Str("customer_request")}
                     /\ last'.res.data.refundedAt = Num(clock)
                ELSE /\ last'.res.code \in {"already_refunded", "refund_processing_error"}
                     /\ id \in DOMAIN settled => last'.res.code = "already_refunded"
                     /\ transactions' = transactions]_vars

\* the refund requests for transaction id whose delay is running
RefundsInFlight(id) ==
  LET rs == {r \in BagToSet(inflight) : r.kind = "refundPayment" /\ r.id = id}
  IN  BagCardinality([r \in rs |-> inflight[r]])

\* C17 witness: of three refund requests for one transaction, one has
\* succeeded some time after the payment, one, which asks for another amount,
\* has been answered already_refunded, and one is still waiting for its delay
C17_Witness ==
  /\ last.req.kind = "refundPayment"
  /\ last.res.code = "already_refunded"
  /\ last.req.body.amount = Num(40)
  /\ settled[last.req.id][1].refundAmount = Num(30)
  /\ settled[last.req.id][1].refundedAt = Num(2)
  /\ transactions[last.req.id].createdAt = 1
  /\ RefundsInFlight(last.req.id) = 1

-----------------------------------------------------------------------------
(* SpecServer: start() and stop() called on one instance in any order, one  *)
(* call settled before the next, on a host where another process may hold   *)
(* the configured port.  A socket is [by, port, state]; this.server is the  *)
(* position of a socket in `listeners`, 0 while start() was never called.   *)
(* app.listen binds the port at once and reports the outcome on the next    *)
(* tick, before any other call of the caller can run, so start() is one     *)
(* step.                                                                    *)

\* some socket is bound to port p
PortBound(p) ==
  \E k \in 1 .. Len(listeners) :
    listeners[k].port = p /\ listeners[k].state = "listening"

\* the port listen(p) binds: with p = 0 the host picks a port that is free
PortFor(p) == IF p = 0 THEN 49152 + Len(listeners) ELSE p

\* a promise that has resolved, and one that has rejected with an error
Resolved == Ok(0, Undefined)
Rejected(code) == Fail(0, code)

\* start(): this.server = this.app.listen(this.config.port, ...)
start ==
  /\ Len(listeners) < MaxListeners
  /\ LET port == PortFor(config.port)
         free == ~PortBound(port)
     IN  /\ listeners' = Append(listeners,
                                [by |-> This, port |-> port,
                                 state |-> IF free THEN "listening" ELSE "failed"])
         /\ server' = Len(listeners) + 1
         /\ last' = [req |-> [kind |-> "start", to |-> This],
                     res |-> IF free THEN Resolved ELSE Rejected("EADDRINUSE")]
  /\ UNCHANGED <<config, transactions, nextId, inflight, submitted, cleared, pinned, clock>>
  /\ UNCHANGED <<process, owner, settled, quiet>>

\* stop(): resolves when there is no this.server, else this.server.close(...)
stop ==
  /\ IF server = 0
       THEN /\ last' = [req |-> [kind |-> "stop", to |-> This], res |-> Resolved]
            /\ UNCHANGED listeners
       ELSE IF listeners[server].state = "listening"
         THEN /\ listeners' = [listeners EXCEPT ![server].state = "closed"]
              /\ last' = [req |-> [kind |-> "stop", to |-> This], res |-> Resolved]
         ELSE /\ last' = [req |-> [kind |-> "stop", to |-> This],
                          res |-> Rejected("ERR_SERVER_NOT_RUNNING")]
              /\ UNCHANGED listeners
  /\ UNCHANGED <<config, transactions, nextId, inflight, submitted, cleared, pinned, clock>>
  /\ UNCHANGED <<process, owner, settled, server, quiet>>

\* another process binds the configured port
otherListens ==
  /\ Len(listeners) < MaxListeners
  /\ config.port # 0
  /\ ~PortBound(config.port)
  /\ listeners' = Append(listeners,
                         [by |-> "other", port |-> config.port, state |-> "listening"])
  /\ last' = NoLast
  /\ UNCHANGED <<config, transactions, nextId, inflight, submitted, cleared, pinned, clock>>
  /\ UNCHANGED <<process, owner, settled, server, quiet>>

\* another process closes its socket
otherCloses ==
  /\ \E k \in 1 .. Len(listeners) :
       /\ listeners[k].by = "other"
       /\ listeners[k].state = "listening"
       /\ listeners' = [listeners EXCEPT ![k].state = "closed"]
  /\ last' = NoLast
  /\ UNCHANGED <<config, transactions, nextId, inflight, submitted, cleared, pinned, clock>>
  /\ UNCHANGED <<process, owner, settled, server, quiet>>

\* the instance listens on the default port, or on a port the host picks
ServerConfigs == {Construct(NoOverride), Construct([port |-> 0])}

InitServer ==
  /\ config \in ServerConfigs
  /\ aliased = {This}
  /\ transactions = <<>>
  /\ nextId = 1
  /\ inflight = EmptyBag
  /\ last = NoLast
  /\ submitted = <<>>
  /\ cleared = {}
  /\ pinned = NoLast
  /\ clock = 1
  /\ Alone

NextServer ==
  \/ start
  \/ stop
  \/ otherListens
  \/ otherCloses

SpecServer == InitServer /\ [][NextServer]_vars

\* the sockets this instance has opened that are bound
BoundByInstance(ls) ==
  {k \in 1 .. Len(ls) : ls[k].by = This /\ ls[k].state = "listening"}

\* C19, as claimed: a start() while the configured port is bound rejects; once
\* a stop() has resolved, no socket that the instance opened is bound; and a
\* stop() on an instance that was never started resolves.
C19_StartStop ==
  /\ [][(Len(listeners') > Len(listeners) /\ listeners'[Len(listeners')].by = This
          /\ PortBound(config.port)) =>
          (last'.req.kind = "start" /\ ~last'.res.success)]_vars
  /\ []((last.req.kind = "stop" /\ last.res.success) => BoundByInstance(listeners) = {})
  /\ []((last.req.kind = "stop" /\ server = 0) => last.res.success)

-----------------------------------------------------------------------------
(* SpecOrder: the caller of SpecPay against an instance whose rolls are     *)
(* decided by its configuration: a rate of 1 makes every draw trigger, a    *)
(* rate of 0 none.                                                          *)

\* a rate of 1, in hundredths
Always == 100

OrderConfigs ==
  { Construct([errorRate |-> Always, declineRate |-> 0]),
    Construct([errorRate |-> 0, declineRate |-> Always]),
    Construct(ZeroRates),
    Construct(NoOverride) }

InitOrder ==
  /\ config \in OrderConfigs
  /\ aliased = {This}
  /\ transactions = <<>>
  /\ nextId = 1
  /\ inflight = EmptyBag
  /\ last = NoLast
  /\ submitted = <<>>
  /\ cleared = {}
  /\ pinned = NoLast
  /\ clock = 1
  /\ Alone

SpecOrder == InitOrder /\ [][NextPay]_vars

\* the error codes of the six magic card checks
MagicCodes ==
  {"card_declined", "processing_error", "invalid_cvv", "expired_card",
   "insufficient_funds", "invalid_card"}

\* the card number of the body, stripped of whitespace, is one of the test
\* cards that force a failure
CarriesMagicCard(cfg, body) ==
  /\ OptionalNumber(body.cardDetails).t = "text"
  /\ \E name \in DOMAIN CardCode :
       Text(StripWhitespace(OptionalNumber(body.cardDetails).v)) = cfg.testCards[name]

\* C21: processPayment decides by the first check that applies, in the order
\* required fields, payment method, error roll, card number present (for
\* credit_card), magic cards, decline roll, creation: a request that fails the
\* field or the method check gets that 400 answer whatever the error roll, and
\* an error roll that triggers gives processing_error whatever the card
\* details are, absent ones included.
C21_CheckOrder ==
  last.req.kind = "processPayment" =>
    LET body == last.req.body
        code == last.res.code
        number == OptionalNumber(body.cardDetails)
        card == body.paymentMethod = Str("credit_card")
        fieldsPass == ~MissingField(body)
        methodPass == fieldsPass /\ body.paymentMethod \in config.availablePaymentMethods
        rollPass == methodPass /\ config.errorRate = 0
        numberPass == rollPass /\ (card => Truthy(number) /\ number.t = "text")
        magicPass == numberPass /\ (card => ~CarriesMagicCard(config, body))
    IN  /\ ~fieldsPass => last.res = Fail(400, "invalid_request")
        /\ (fieldsPass /\ ~methodPass) => last.res = Fail(400, "invalid_payment_method")
        /\ (methodPass /\ config.errorRate = Always) => last.res = Fail(500, "processing_error")
        /\ (rollPass /\ card /\ ~Truthy(number)) => last.res = Fail(400, "invalid_card_details")
        /\ (numberPass /\ ~magicPass) => code \in MagicCodes
        /\ (magicPass /\ config.declineRate = Always /\ number # config.testCards.success) =>
             last.res = Fail(402, "payment_declined")
        /\ (magicPass /\ config.declineRate = 0) => last.res.success

\* C21 witness: with an error rate of 1, a credit_card payment without card
\* details has been answered processing_error
C21_Witness ==
  /\ last.req.kind = "processPayment"
  /\ config.errorRate = Always
  /\ last.req.body.paymentMethod = Str("credit_card")
  /\ last.req.body.cardDetails = Undefined
  /\ last.res = Fail(500, "processing_error")

-----------------------------------------------------------------------------
(* SpecCards: one caller that submits credit_card payments with every card  *)
(* number, written with and without spaces, against instances whose test    *)
(* cards are the default ones, all different, or one number for several     *)
(* outcomes.                                                                *)

\* test cards where one number stands for three outcomes and another for two
OverlapTestCards ==
  [DefaultTestCards EXCEPT !.cvvError = Text(CardInvalid),
                           !.insufficientFunds = Text(CardInvalid),
                           !.decline = Text(CardError)]

CardConfigs ==
  { Construct([errorRate |-> 0, declineRate |-> d, testCards |-> cards]) :
      d \in {0, Always},
      cards \in {DefaultTestCards, DistinctTestCards, OverlapTestCards} }

\* the card numbers, plain and in groups of four separated by spaces
CardNumbers ==
  {CardSuccess, CardDecline, CardError, CardCvvError, CardExpired, CardExpiredOther,
   CardInsufficientFunds, CardInvalid, CardOrdinary}

CardBodies ==
  { PaymentBody(Str("credit_card"), Num(100), Str("USD"), CardDetails(Text(n)),
                Undefined, Undefined) :
      n \in CardNumbers \cup {Spaced(c) : c \in CardNumbers} }

InitCards ==
  /\ config \in CardConfigs
  /\ aliased = {}
  /\ transactions = <<>>
  /\ nextId = 1
  /\ inflight = EmptyBag
  /\ last = NoLast
  /\ submitted = <<>>
  /\ cleared = {}
  /\ pinned = NoLast
  /\ clock = 1
  /\ Alone

NextCards ==
  \/ \E b \in CardBodies : inflight = EmptyBag /\ Request(PaymentRequest(b))
  \/ \E r \in BagToSet(inflight) : processPayment(r)
  \/ Resubmit

SpecCards == InitCards /\ [][NextCards]_vars

\* the outcomes of the magic card checks, in their priority order
Priority ==
  <<"decline", "error", "cvvError", "expiredCard", "insufficientFunds", "invalidCard">>

\* the positions in Priority of the outcomes that number n is configured for
ConfiguredFor(cfg, n) == {i \in 1 .. Len(Priority) : cfg.testCards[Priority[i]] = n}

\* the least member of a non-empty set of numbers
Least(S) == CHOOSE i \in S : \A j \in S : i <= j

\* C22: a credit_card payment that reaches the magic card checks with a card
\* number that, stripped of whitespace, is configured for one or more of the
\* six failure outcomes is answered with the outcome that comes first in the
\* order decline, error, invalid CVV, expired card, insufficient funds, invalid
\* card, whether the number was written with spaces or without, and whatever
\* the decline rate.
C22_MagicPriority ==
  (last.req.kind = "processPayment" /\ config.errorRate = 0) =>
    LET n == Text(StripWhitespace(OptionalNumber(last.req.body.cardDetails).v))
        outcomes == ConfiguredFor(config, n)
    IN  outcomes # {} => last.res.code = CardCode[Priority[Least(outcomes)]]

\* C22 witness: the number configured for invalid CVV, insufficient funds and
\* invalid card, written with spaces, has been answered invalid_cvv by an
\* instance that declines every payment it can
C22_Witness ==
  /\ last.req.kind = "processPayment"
  /\ config.testCards = OverlapTestCards
  /\ config.declineRate = Always
  /\ OptionalNumber(last.req.body.cardDetails) = Text(Spaced(CardInvalid))
  /\ last.res = Fail(400, "invalid_cvv")

-----------------------------------------------------------------------------
(* SpecMethods: one caller that pays with every supported method, with and  *)
(* without card details and with the magic card numbers.                    *)

MethodCards ==
  { Undefined,
    Obj([cvv |-> Str("123")]),
    CardDetails(Text(<<>>)),
    CardDetails(Text(CardDecline)),
    CardDetails(Text(CardError)),
    CardDetails(Text(CardCvvError)),
    CardDetails(Text(CardOrdinary)) }

MethodBodies ==
  { PaymentBody(m, Num(100), Str("USD"), card, Undefined, Undefined) :
      m \in DEFAULT_CONFIG.availablePaymentMethods, card \in MethodCards }

NextMethods ==
  \/ \E b \in MethodBodies : inflight = EmptyBag /\ Request(PaymentRequest(b))
  \/ \E r \in BagToSet(inflight) : processPayment(r)
  \/ resetTransactions

SpecMethods == InitOrder /\ [][NextMethods]_vars

\* the request has no card details, or card details without a card number
NoCardNumber(body) ==
  ~Truthy(body.cardDetails) \/ ~Truthy(OptionalNumber(body.cardDetails))

\* the methods that are no card
NonCardMethods == {Str("paypal"), Str("apple_pay"), Str("google_pay")}

\* the part on credit_card requests without a card number, which the statement
\* as claimed and as amended share
CardNumberRequired ==
  (last'.req.body.paymentMethod = Str("credit_card") /\ NoCardNumber(last'.req.body)) =>
    /\ last'.res.code # "processing_error" => last'.res = Fail(400, "invalid_card_details")
    /\ config.errorRate = 0 => last'.res = Fail(400, "invalid_card_details")
    /\ transactions' = transactions
    /\ nextId' = nextId

\* C23, as claimed: a credit_card payment without card details or card number
\* that the error roll lets pass is answered 400 invalid_card_details and
\* stores nothing; a payment by paypal, apple_pay or google_pay is never
\* answered invalid_card_details nor any of the error codes of the magic
\* cards, whatever card number it carries.
C23_CardDetails ==
  [][Answers("processPayment") =>
       /\ CardNumberRequired
       /\ last'.req.body.paymentMethod \in NonCardMethods =>
            last'.res.code \notin {"invalid_card_details"} \cup MagicCodes]_vars

\* C23, amended: a credit_card payment without card details or card number
\* that the error roll lets pass is answered 400 invalid_card_details and
\* stores nothing; a payment by paypal, apple_pay or google_pay is never
\* answered invalid_card_details, card_declined, invalid_cvv, expired_card,
\* insufficient_funds or invalid_card, whatever card number it carries, and is
\* answered processing_error, the code the error card shares with the error
\* roll, only by the error roll: never when the error rate is 0.
C23_CardDetailsAmended ==
  [][Answers("processPayment") =>
       /\ CardNumberRequired
       /\ last'.req.body.paymentMethod \in NonCardMethods =>
            /\ last'.res.code \notin
                 ({"invalid_card_details"} \cup MagicCodes) \ {"processing_error"}
            /\ last'.res.code = "processing_error" => config.errorRate > 0
            /\ (config.errorRate = 0 /\ config.declineRate = 0) => last'.res.success]_vars

\* C23 witness: with an error rate of 0, a paypal payment that carries the
\* error card has succeeded
C23_Witness ==
  /\ last.req.kind = "processPayment"
  /\ config.errorRate = 0
  /\ last.req.body.paymentMethod = Str("paypal")
  /\ OptionalNumber(last.req.body.cardDetails) = Text(CardError)
  /\ last.res.success

-----------------------------------------------------------------------------
(* SpecRetry: one caller that pays, asks for refunds and sends a refund     *)
(* request again after its answer, as the message of the injected error     *)
(* asks.                                                                    *)

\* the caller sends the refund request just answered once more
Retry ==
  /\ last.req.kind = "refundPayment"
  /\ inflight = EmptyBag
  /\ inflight' = SetToBag({last.req})
  /\ pinned' = last
  /\ last' = NoLast
  /\ UNCHANGED <<config, transactions, nextId, submitted, cleared, clock>>
  /\ UNCHANGED <<process, network, owner, settled>>
  /\ quiet' = FALSE

NextRetry ==
  \/ \E r \in RefundRequests : inflight = EmptyBag /\ Request(r)
  \/ \E r \in BagToSet(inflight) : processPayment(r)
  \/ \E r \in BagToSet(inflight) : refundPayment(r)
  \/ Retry
  \/ resetTransactions

SpecRetry == Init /\ [][NextRetry]_vars

\* a roll that triggers no injected error
Spared == CHOOSE roll \in Rolls : ~Triggered(roll, DefaultErrorRate)

\* C24: a refund answered with the injected error is answered 500
\* refund_processing_error, on a succeeded transaction only and never with an
\* error rate of 0, and leaves the whole store as it was: the transaction is
\* still succeeded, has no refund fields, and a refund on it that is spared by
\* the roll succeeds; a caller who sends the failed refund again, with no
\* reset in between, is answered with success or with the injected error again.
C24_RefundErrorHarmless ==
  /\ [][(Answers("refundPayment") /\ last'.res.code = "refund_processing_error") =>
          /\ last'.res = Fail(500, "refund_processing_error")
          /\ config.errorRate > 0
          /\ last'.req.id \in DOMAIN transactions
          /\ transactions[last'.req.id].status = "succeeded"
          /\ transactions' = transactions
          /\ settled' = settled
          /\ \A f \in {"refundAmount", "refundedAt", "refundReason"} :
               transactions'[last'.req.id][f] = Undefined
          /\ RefundRejection(config, transactions', last'.req.id, Spared) = <<>>]_vars
  /\ [](( /\ pinned.req.kind = "refundPayment"
          /\ pinned.res.code = "refund_processing_error"
          /\ last.req = pinned.req
          /\ last.req.id \notin cleared) =>
            (last.res.success \/ last.res = Fail(500, "refund_processing_error")))

\* C24 witness: the refund that was answered with the injected error has been
\* sent again and has succeeded
C24_Witness ==
  /\ pinned.req.kind = "refundPayment"
  /\ pinned.res = Fail(500, "refund_processing_error")
  /\ last.req = pinned.req
  /\ last.res.success
  /\ transactions[last.req.id].status = "refunded"

-----------------------------------------------------------------------------
(* The frame of a refund, under Spec.                                       *)

\* the fields of a transaction that a refund writes
RefundWrites == {"status", "refundAmount", "refundedAt", "refundReason"}

\* C25: a successful refund changes nothing but the status, refundAmount,
\* refundedAt and refundReason of the transaction it names: the id,
\* paymentMethod, amount, currency, createdAt, metadata and billingInfo of that
\* transaction keep their values, every other transaction is as it was, and
\* the store holds the same identifiers as before.
C25_RefundFrame ==
  [][(Answers("refundPayment") /\ last'.res.success) =>
       LET id == last'.req.id
       IN  /\ id \in DOMAIN transactions
           /\ DOMAIN transactions' = DOMAIN transactions
           /\ \A other \in DOMAIN transactions \ {id} :
                transactions'[other] = transactions[other]
           /\ DOMAIN transactions'[id] = DOMAIN transactions[id]
           /\ {"id", "paymentMethod", "amount", "currency", "createdAt",
               "metadata", "billingInfo"} = DOMAIN transactions[id] \ RefundWrites
           /\ \A f \in DOMAIN transactions[id] \ RefundWrites :
                transactions'[id][f] = transactions[id][f]
           /\ transactions'[id].status = "refunded"
           /\ nextId' = nextId]_vars

\* C25 witness: a part of the first payment, which carries metadata, has been
\* refunded after time has passed, while the store holds a second transaction
C25_Witness ==
  /\ last.req.kind = "refundPayment"
  /\ last.res.success
  /\ last.req.body.amount = Num(30)
  /\ Cardinality(DOMAIN transactions) = 2
  /\ transactions[last.req.id].amount = Num(100)
  /\ transactions[last.req.id].metadata = Obj("{order:A1}")
  /\ transactions[last.req.id].refundedAt.v > transactions[last.req.id].createdAt

-----------------------------------------------------------------------------
(* SpecReset: callers that pay, read and ask for refunds at the same time,  *)
(* while the test process calls resetTransactions at any moment, also while *)
(* requests wait in their delay.                                            *)

ResetPayment ==
  PaymentBody(Str("paypal"), Num(100), Str("USD"), Undefined, Undefined, Undefined)

ResetRequests ==
  {PaymentRequest(ResetPayment)}
    \cup {GetRequest(id) : id \in 1 .. MaxTx}
    \cup {RefundRequest(id, Undefined, Undefined) : id \in 1 .. MaxTx}

NextReset ==
  \/ \E r \in ResetRequests : BagCardinality(inflight) < MaxInflight /\ Request(r)
  \/ \E r \in BagToSet(inflight) : processPayment(r)
  \/ \E r \in BagToSet(inflight) : getPayment(r)
  \/ \E r \in BagToSet(inflight) : refundPayment(r)
  \/ resetTransactions

SpecReset == Init /\ [][NextReset]_vars

\* C26: a reset leaves the requests that wait in their delay where they are;
\* a payment that succeeds stores its transaction under a new identifier and
\* returns that identifier, also when a reset has run since the payment came
\* in, and with both rates at 0 it always succeeds; a get is answered with
\* the transaction exactly when the store holds its identifier.
C26_PaymentSurvivesReset ==
  /\ [][(quiet' /\ last' = NoLast) => inflight' = inflight]_vars
  /\ [][Answers("processPayment") =>
          /\ (config.errorRate = 0 /\ config.declineRate = 0) => last'.res.success
          /\ last'.res.success =>
               LET id == last'.res.data.transactionId
               IN  /\ id \notin DOMAIN transactions \cup cleared
                   /\ DOMAIN transactions' = DOMAIN transactions \cup {id}
                   /\ transactions'[id].status = "succeeded"
                   /\ last'.res.status = 201]_vars
  /\ [][Answers("getPayment") =>
          (last'.res.success <=> last'.req.id \in DOMAIN transactions')]_vars

\* C26 witness: a reset has run, no request has come in since, and the store
\* holds the transaction of the payment just answered with 201
C26_Witness ==
  /\ quiet
  /\ cleared # {}
  /\ last.req.kind = "processPayment"
  /\ last.res.status = 201
  /\ DOMAIN transactions = {last.res.data.transactionId}

\* C29: no identifier that a reset has removed is in the store again; a refund
\* of such an identifier is answered 404 transaction_not_found and leaves the
\* store as it was.
C29_RefundAfterReset ==
  /\ [](cleared \cap DOMAIN transactions = {})
  /\ [][(Answers("refundPayment") /\ last'.req.id \in cleared) =>
          /\ last'.res = Fail(404, "transaction_not_found")
          /\ transactions' = transactions
          /\ last'.req.id \notin DOMAIN transactions']_vars

\* C29 witness: a refund that came in before the reset which removed its
\* transaction has been answered 404 after it
C29_Witness ==
  /\ quiet
  /\ last.req.kind = "refundPayment"
  /\ last.req.id \in cleared
  /\ last.res = Fail(404, "transaction_not_found")
  /\ last.req.id \notin DOMAIN transactions

-----------------------------------------------------------------------------
(* SpecBurst: callers that pay at the same time.  Each request carries the  *)
(* number of its arrival, which no handler reads; the delays are random, so *)
(* the handlers of the waiting requests run in any order.  There is no      *)
(* reset.                                                                   *)

BurstBodies ==
  { PaymentBody(Str("paypal"), Num(100), Str("USD"), Undefined, Undefined, Undefined),
    PaymentBody(Str("paypal"), Num(250), Str("EUR"), Undefined, Undefined, Undefined) }

\* the payments that have arrived so far, when none has failed
Arrived == (nextId - 1) + BagCardinality(inflight)

BurstRequest(body, n) ==
  [kind |-> "processPayment", to |-> This, body |-> body, arrival |-> n]

NextBurst ==
  \/ \E b \in BurstBodies : Request(BurstRequest(b, Arrived + 1))
  \/ \E r \in BagToSet(inflight) : processPayment(r)
  \/ Tick

SpecBurst == Init /\ [][NextBurst]_vars

\* C27: the store holds exactly the identifiers handed out so far; a payment
\* that succeeds returns an identifier the store did not hold, adds exactly
\* that one transaction, built from its own body, leaves every stored
\* transaction as it was and every other waiting request waiting; so N
\* payments that succeed add N transactions under N identifiers, in whatever
\* order their handlers run.
C27_NoCreationLost ==
  /\ [](DOMAIN transactions = 1 .. (nextId - 1))
  /\ [][(Answers("processPayment") /\ last'.res.success) =>
          LET id == last'.res.data.transactionId
          IN  /\ id \notin DOMAIN transactions
              /\ DOMAIN transactions' = DOMAIN transactions \cup {id}
              /\ Cardinality(DOMAIN transactions') = Cardinality(DOMAIN transactions) + 1
              /\ \A old \in DOMAIN transactions : transactions'[old] = transactions[old]
              /\ transactions'[id].id = id
              /\ transactions'[id].amount = last'.req.body.amount
              /\ inflight' = inflight (-) SetToBag({last'.req})
              /\ BagCardinality(inflight') = BagCardinality(inflight) - 1]_vars

\* C27 witness: two payments waited at the same time and both have succeeded;
\* the one that arrived first was answered last, so the store holds two
\* transactions and the first identifier belongs to the second arrival
C27_Witness ==
  /\ last.req.kind = "processPayment"
  /\ last.res.success
  /\ last.req.arrival = 1
  /\ last.res.data.transactionId = 2
  /\ inflight = EmptyBag
  /\ DOMAIN transactions = {1, 2}
  /\ transactions[1].amount = Num(250)
  /\ transactions[2].amount = Num(100)

-----------------------------------------------------------------------------
(* SpecLive: a service with the default configuration that is started once, *)
(* is not stopped, and receives requests for its five routes on its         *)
(* connections, one request at a time on each.  The delay middleware arms a *)
(* timer for each request it lets through, and the event loop runs every    *)
(* timer that is due: the handler step of a waiting request is weakly fair. *)

MaxConnections == 2

Connections == 1 .. MaxConnections

\* the request r as it arrives on connection c
On(c, r) == ("conn" :> c) @@ r

\* this.server is listening
Listening == server # 0 /\ listeners[server].state = "listening"

\* connection c carries a request that waits in its delay
Waiting(c) == \E r \in BagToSet(inflight) : r.conn = c

LiveBodies ==
  { PaymentBody(Str("paypal"), Num(100), Str("USD"), Undefined, Undefined, Undefined),
    PaymentBody(Str("credit_card"), Num(100), Str("USD"),
                CardDetails(Num(4242)), Undefined, Undefined) }

LiveRequests ==
  {PaymentRequest(b) : b \in LiveBodies}
    \cup {GetRequest(1), RefundRequest(1, Undefined, Undefined), HealthRequest,
          PaymentMethodsRequest}

\* a request comes in on a connection that carries none
Receive(c, r) ==
  /\ Listening
  /\ ~Waiting(c)
  /\ Request(On(c, r))

\* the timer of the request on connection c fires and its handler runs
Served(c) ==
  \E r \in BagToSet(inflight) :
    /\ r.conn = c
    /\ \/ processPayment(r)
       \/ getPayment(r)
       \/ refundPayment(r)
       \/ health(r)
       \/ paymentMethods(r)

InitLive ==
  /\ config = Construct(NoOverride)
  /\ aliased = {This}
  /\ transactions = <<>>
  /\ nextId = 1
  /\ inflight = EmptyBag
  /\ last = NoLast
  /\ submitted = <<>>
  /\ cleared = {}
  /\ pinned = NoLast
  /\ clock = 1
  /\ Alone

NextLive ==
  \/ server = 0 /\ start
  \/ \E c \in Connections, r \in LiveRequests : Receive(c, r)
  \/ \E c \in Connections :
       Listening /\ ~Waiting(c) /\ jsonError(On(c, PaymentRequest(Malformed)))
  \/ \E r \in BagToSet(inflight) : processPayment(r)
  \/ \E r \in BagToSet(inflight) : getPayment(r)
  \/ \E r \in BagToSet(inflight) : refundPayment(r)
  \/ \E r \in BagToSet(inflight) : health(r)
  \/ \E r \in BagToSet(inflight) : paymentMethods(r)

TimersFire == \A c \in Connections : WF_vars(Served(c))

SpecLive == InitLive /\ [][NextLive]_vars /\ TimersFire

\* the request on connection c has just been answered
Answered(c) ==
  /\ "conn" \in DOMAIN last.req
  /\ last.req.conn = c
  /\ last.res.status \in {200, 201, 400, 402, 404, 500}
  /\ ~Waiting(c)

\* C28: every request that waits in its delay is eventually answered; a step
\* that answers a waiting request takes exactly that request out of the
\* waiting ones, a request that cannot be parsed is answered as it arrives,
\* and no request leaves the waiting ones without its answer: each request
\* gets one response.
C28_OneResponse ==
  /\ \A c \in Connections : Waiting(c) ~> Answered(c)
  /\ [][(last' # last /\ "conn" \in DOMAIN last'.req) =>
          /\ last'.res.status \in {200, 201, 400, 402, 404, 500}
          /\ \/ /\ BagIn(last'.req, inflight)
                /\ inflight' = inflight (-) SetToBag({last'.req})
             \/ /\ Unparseable(last'.req)
                /\ ~Waiting(last'.req.conn)
                /\ inflight' = inflight]_vars
  /\ [][\A r \in BagToSet(inflight) :
          ~BagIn(r, inflight') => last'.req = r]_vars

\* C28 witness: while another request still waits, the payment whose card
\* number is no string has been answered by the error middleware
C28_Witness ==
  /\ "conn" \in DOMAIN last.req
  /\ last.req.kind = "processPayment"
  /\ last.res = Fail(500, "server_error")
  /\ ~Unparseable(last.req)
  /\ Answered(last.req.conn)
  /\ inflight # EmptyBag

-----------------------------------------------------------------------------
(* SpecConfig: instances constructed with a config that supplies only some  *)
(* of the values, and one caller that pays by card.  Each request carries   *)
(* the delay the middleware computed for it, which no handler reads.        *)

\* Math.floor(Math.random() * (delay.max - delay.min) + delay.min): arithmetic
\* on undefined yields NaN
Delay(cfg, roll) ==
  LET min == Prop(cfg.delay, "min")
      max == Prop(cfg.delay, "max")
  IN  IF min.t = "number" /\ max.t = "number"
        THEN Num((roll * (max.v - min.v)) \div 100 + min.v)
        ELSE NaN

\* the request r with the delay d of its timer
Delayed(r, d) == ("delay" :> d) @@ r

\* what the caller passes to the constructor
Overrides ==
  { NoOverride,
    [errorRate |-> 0],
    [testCards |-> [decline |-> Text(CardOrdinary)]],
    [delay |-> [min |-> Num(50)]],
    [delay |-> [min |-> Num(50), max |-> Num(60)]],
    [errorRate |-> 0, testCards |-> DistinctTestCards] }

ConfigCards ==
  {CardSuccess, CardDecline, CardError, CardCvvError, CardInsufficientFunds,
   CardInvalid, CardOrdinary}

ConfigBodies ==
  { PaymentBody(Str("credit_card"), Num(100), Str("USD"),
                CardDetails(Text(n)), Undefined, Undefined) : n \in ConfigCards }

InitConfig ==
  /\ config \in {Construct(o) : o \in Overrides}
  /\ aliased = IF config.testCards = DefaultTestCards THEN {This} ELSE {}
  /\ transactions = <<>>
  /\ nextId = 1
  /\ inflight = EmptyBag
  /\ last = NoLast
  /\ submitted = <<>>
  /\ cleared = {}
  /\ pinned = NoLast
  /\ clock = 1
  /\ Alone

NextConfig ==
  \/ \E b \in ConfigBodies, roll \in Rolls :
       /\ inflight = EmptyBag
       /\ Request(Delayed(PaymentRequest(b), Delay(config, roll)))
  \/ \E r \in BagToSet(inflight) : processPayment(r)
  \/ resetTransactions

SpecConfig == InitConfig /\ [][NextConfig]_vars

\* the config in which each value that o supplies replaces its default and
\* every other value, inside testCards and delay too, is the default
Overridden(o) ==
  [k \in DOMAIN DEFAULT_CONFIG |->
     IF k \notin DOMAIN o THEN DEFAULT_CONFIG[k]
     ELSE IF k \in {"testCards", "delay"} THEN Merge(DEFAULT_CONFIG[k], o[k])
     ELSE o[k]]

\* the codes the handler can answer a payment with under the config cfg; the
\* empty code is the one of a success
CodesUnder(cfg, body) ==
  { LET rejection == PaymentRejection(cfg, body, errRoll, declRoll)
    IN  IF rejection = <<>> THEN "" ELSE rejection[1].code :
      errRoll \in Rolls, declRoll \in Rolls }

\* C30, as claimed: an instance constructed with a config that supplies only
\* some values uses the values supplied and the default for every value not
\* supplied: a payment is answered as under that config, so the magic cards
\* that were not supplied still trigger their outcomes, and the delay of each
\* request is a number between the two delay bounds.
C30_PartialOverride ==
  \A o \in Overrides :
    (config = Construct(o) /\ last.req.kind = "processPayment") =>
      /\ last.res.code \in CodesUnder(Overridden(o), last.req.body)
      /\ last.req.delay.t = "number"
      /\ last.req.delay.v >= Overridden(o).delay.min.v
      /\ last.req.delay.v <= Overridden(o).delay.max.v

====
